---- MODULE Spec2Model ----
(***************************************************************************)
(* Model of src/app.py: the Flask proxy that forwards a landmark query to  *)
(* ArcGIS, samples the returned features down to a processing cap with the *)
(* module-level generator of `random`, clusters them by zoom level and     *)
(* answers with the processed collection.                                  *)
(*                                                                         *)
(* Units.  Feature coordinates are integers in units of 1/111 degree, so   *)
(* that cluster_radius_degrees = cluster_distance_km / 111.0 is the        *)
(* integer cluster_distance_km.  Centroids are kept as exact fractions     *)
(* <<sum, count>>.  Envelope values of a request are integers: metres for  *)
(* a Web Mercator envelope, degrees for a WGS84 one; viewport bounds are   *)
(* integers in units of 1/10000 degree.                                    *)
(***************************************************************************)
EXTENDS Integers, Sequences, FiniteSets, TLC

(***************************************************************************)
(* Bounds of the model.                                                    *)
(***************************************************************************)
\* longest list handed to create_clusters by the clustering specification
MaxLen == 3
\* longest batch the upstream service returns in the server specifications
MaxBatch == 3
\* number of requests a server behaviour accepts
MaxRequests == 2
\* number of states of the modelled generator (a power of two)
RngMod == 16

(***************************************************************************)
(* Program constants.                                                      *)
(***************************************************************************)
\* max_features_for_processing: 2000 in the source (line 167), scaled down
\* to the batches the model enumerates
MaxFeaturesForProcessing == 2
\* zoom_level >= 12 returns individual points
HighZoom == 12

Absent == "<absent>"
Unknown == "Unknown"
UnknownSite == "Unknown Site"
Featured == "Featured"

(***************************************************************************)
(* Features.  A feature is the record                                      *)
(*   [id, gkind, x, y, cat, Name, eng_name]                                *)
(* id is its OBJECTID; cat, Name and eng_name are the properties           *)
(* main_category, Name and eng_name, Absent when the key is missing.       *)
(* gkind tells the shape of the geometry:                                  *)
(*   "point"      geometry.coordinates = [x, y]                            *)
(*   "short"      geometry.coordinates = [x]                               *)
(*   "empty"      geometry.coordinates = []                                *)
(*   "nullcoords" geometry.coordinates = null                              *)
(*   "nocoords"   geometry has no coordinates key                          *)
(*   "nogeom"     the feature has no geometry key                          *)
(*   "nullgeom"   geometry = null                                          *)
(***************************************************************************)
Feat(id, gkind, x, y, cat, name, eng) ==
  [id |-> id, gkind |-> gkind, x |-> x, y |-> y, cat |-> cat,
   Name |-> name, eng_name |-> eng]

\* feature.get('geometry', {}).get('coordinates', [0, 0])
\* raised: the second .get is applied to None (AttributeError)
\* none:   the value is None;  len: its length otherwise
GetCoords(f) ==
  CASE f.gkind = "point"      -> [raised |-> FALSE, none |-> FALSE, len |-> 2, x |-> f.x, y |-> f.y]
    [] f.gkind = "short"      -> [raised |-> FALSE, none |-> FALSE, len |-> 1, x |-> f.x, y |-> 0]
    [] f.gkind = "empty"      -> [raised |-> FALSE, none |-> FALSE, len |-> 0, x |-> 0, y |-> 0]
    [] f.gkind = "nullcoords" -> [raised |-> FALSE, none |-> TRUE,  len |-> 0, x |-> 0, y |-> 0]
    [] f.gkind = "nocoords"   -> [raised |-> FALSE, none |-> FALSE, len |-> 2, x |-> 0, y |-> 0]
    [] f.gkind = "nogeom"     -> [raised |-> FALSE, none |-> FALSE, len |-> 2, x |-> 0, y |-> 0]
    [] OTHER                  -> [raised |-> TRUE,  none |-> FALSE, len |-> 0, x |-> 0, y |-> 0]

\* feature.get('properties', {}).get('main_category', 'Unknown')
CategoryOf(f) == IF f.cat = Absent THEN Unknown ELSE f.cat

\* feature['properties'].get('eng_name', 'Unknown Site')
DefaultName(f) == IF f.eng_name = Absent THEN UnknownSite ELSE f.eng_name

\* the tagging of an individual point (lines 25-31 and 91-96)
NameOfPoint(f) == IF f.Name = Absent THEN DefaultName(f) ELSE f.Name

TagPoint(f) ==
  [OBJECTID |-> <<"feature", f.id>>, gkind |-> f.gkind,
   lon |-> <<f.x, 1>>, lat |-> <<f.y, 1>>,
   main_category |-> f.cat, Name |-> NameOfPoint(f), eng_name |-> f.eng_name,
   Address |-> Absent, is_cluster |-> FALSE, cluster_count |-> 1,
   categories |-> <<>>, members |-> <<f.id>>]

\* a faulty variant of HighZoomPoints: the clustering pass's test of the
\* coordinates is applied at high zoom too
RECURSIVE HighZoomPointsValidOnly(_)
HighZoomPointsValidOnly(features) ==
  IF features = <<>> THEN <<>>
  ELSE LET c == GetCoords(Head(features))
       IN IF c.raised \/ c.none \/ c.len < 2
          THEN HighZoomPointsValidOnly(Tail(features))
          ELSE <<TagPoint(Head(features))>> \o HighZoomPointsValidOnly(Tail(features))

\* the zoom >= 12 branch: every feature tagged, in input order
HighZoomPoints(features) == [i \in 1..Len(features) |-> TagPoint(features[i])]

\* the zoom -> cluster_distance_km table
ClusterDistanceKm(zoom) ==
  IF zoom <= 6 THEN 100
  ELSE IF zoom <= 8 THEN 50
  ELSE IF zoom <= 10 THEN 20
  ELSE 10

Sq(n) == n * n

\* distance <= cluster_radius_degrees, for the centre <<sx, n>>, <<sy, n>>
WithinRadius(c, sx, sy, n, km) ==
  Sq(n * c.x - sx) + Sq(n * c.y - sy) <= Sq(km * n)

\* the scan of the unclustered list for one seed (lines 66-84).
\* acc = [raised, members, sx, sy, remaining]; the centre is the mean of the
\* members' coordinates, recomputed after every append.
RECURSIVE ScanCandidates(_, _, _)
ScanCandidates(cands, acc, km) ==
  IF cands = <<>> \/ acc.raised THEN acc
  ELSE LET f == Head(cands)
           c == GetCoords(f)
       IN IF c.raised \/ c.none
          THEN [acc EXCEPT !.raised = TRUE]
          ELSE IF c.len >= 2
               THEN IF WithinRadius(c, acc.sx, acc.sy, Len(acc.members), km)
                    THEN ScanCandidates(Tail(cands),
                           [acc EXCEPT !.members = Append(@, f),
                                       !.sx = @ + c.x, !.sy = @ + c.y], km)
                    ELSE ScanCandidates(Tail(cands),
                           [acc EXCEPT !.remaining = Append(@, f)], km)
               ELSE ScanCandidates(Tail(cands),
                           [acc EXCEPT !.remaining = Append(@, f)], km)

\* categories[category] += 1 over the members, in insertion order
RECURSIVE BumpCategory(_, _)
BumpCategory(hist, cat) ==
  IF hist = <<>> THEN << <<cat, 1>> >>
  ELSE IF Head(hist)[1] = cat
       THEN << <<cat, Head(hist)[2] + 1>> >> \o Tail(hist)
       ELSE << Head(hist) >> \o BumpCategory(Tail(hist), cat)

RECURSIVE Histogram(_)
Histogram(members) ==
  IF members = <<>> THEN <<>>
  ELSE BumpCategory(Histogram(SubSeq(members, 1, Len(members) - 1)),
                    CategoryOf(members[Len(members)]))

\* a faulty variant of DominantCategory: the last of the tied categories wins
RECURSIVE LastMax(_)
LastMax(hist) ==
  IF Len(hist) = 1 THEN Head(hist)
  ELSE LET m == LastMax(Tail(hist))
       IN IF Head(hist)[2] > m[2] THEN Head(hist) ELSE m

DominantCategoryLast(hist) == IF hist = <<>> THEN Unknown ELSE LastMax(hist)[1]

\* max(categories.items(), key=lambda x: x[1])[0]: the first item, in the
\* dict's insertion order, whose count is the largest
RECURSIVE FirstMax(_)
FirstMax(hist) ==
  IF Len(hist) = 1 THEN Head(hist)
  ELSE LET m == FirstMax(Tail(hist))
       IN IF Head(hist)[2] >= m[2] THEN Head(hist) ELSE m

DominantCategory(hist) == IF hist = <<>> THEN Unknown ELSE FirstMax(hist)[1]

FeatureIds(fs) == [i \in 1..Len(fs) |-> fs[i].id]

\* the synthetic cluster feature (lines 100-125)
ClusterFeature(members, sx, sy, cluster_id) ==
  LET n == Len(members)
      hist == Histogram(members)
  IN [OBJECTID |-> <<"cluster", cluster_id>>, gkind |-> "point",
      lon |-> <<sx, n>>, lat |-> <<sy, n>>,
      main_category |-> DominantCategory(hist),
      Name |-> "Cluster of " \o ToString(n) \o " Jewish Sites",
      eng_name |-> "Cluster (" \o ToString(n) \o ")",
      Address |-> ToString(n) \o " sites in this area",
      is_cluster |-> TRUE, cluster_count |-> n,
      categories |-> hist, members |-> FeatureIds(members)]

\* the while loop of the clustering pass (lines 55-127)
RECURSIVE ClusterLoop(_, _, _, _)
ClusterLoop(unclustered, clusters, cluster_id, km) ==
  IF unclustered = <<>> THEN [raised |-> FALSE, features |-> clusters]
  ELSE LET seed == Head(unclustered)
           rest == Tail(unclustered)
           sc == GetCoords(seed)
       IN IF sc.raised THEN [raised |-> TRUE, features |-> <<>>]
          ELSE IF sc.none \/ sc.len < 2
          THEN ClusterLoop(rest, clusters, cluster_id, km)
          ELSE LET scan == ScanCandidates(rest,
                             [raised |-> FALSE, members |-> <<seed>>,
                              sx |-> sc.x, sy |-> sc.y, remaining |-> <<>>], km)
               IN IF scan.raised THEN [raised |-> TRUE, features |-> <<>>]
                  ELSE IF Len(scan.members) = 1
                  THEN ClusterLoop(scan.remaining,
                         Append(clusters, TagPoint(seed)), cluster_id, km)
                  ELSE ClusterLoop(scan.remaining,
                         Append(clusters,
                                ClusterFeature(scan.members, scan.sx, scan.sy, cluster_id)),
                         cluster_id + 1, km)

\* create_clusters(features, zoom_level): the list it returns, or raised
create_clusters(features, zoom_level) ==
  IF zoom_level >= HighZoom
  THEN [raised |-> FALSE, features |-> HighZoomPoints(features)]
  ELSE ClusterLoop(features, <<>>, 0, ClusterDistanceKm(zoom_level))

(***************************************************************************)
(* The module-level generator of `random`, shared by every request.        *)
(* Its state is a number below RngMod, advanced by a full-period linear    *)
(* congruential step.                                                      *)
(***************************************************************************)
RngStep(s) == (5 * s + 3) % RngMod

\* _randbelow(n)
RandBelow(s, n) == [value |-> s % n, rng |-> RngStep(s)]

\* random.sample(population, k), the pool algorithm CPython uses when the
\* population is not much larger than k:
\*   for i in range(k): j = randbelow(n-i); result[i] = pool[j];
\*                      pool[j] = pool[n-i-1]
RECURSIVE SamplePool(_, _, _, _, _)
SamplePool(pool, n, k, result, s) ==
  IF Len(result) = k THEN [result |-> result, rng |-> s]
  ELSE LET i == Len(result)
           r == RandBelow(s, n - i)
           j == r.value + 1
       IN SamplePool([pool EXCEPT ![j] = pool[n - i]], n, k,
                     Append(result, pool[j]), r.rng)

RandomSample(population, k, s) ==
  SamplePool(population, Len(population), k, <<>>, s)

(***************************************************************************)
(* Viewport bounds and the seed derived from them.                         *)
(***************************************************************************)
NoBounds == [present |-> FALSE, west |-> 0, south |-> 0, east |-> 0, north |-> 0]

Bounds(w, s, e, n) ==
  [present |-> TRUE, west |-> w, south |-> s, east |-> e, north |-> n]

Abs(v) == IF v < 0 THEN -v ELSE v

\* f"{v:.3f}": the value rounded to thousandths of a degree
Format3(v) == IF v < 0 THEN -((5 - v) \div 10) ELSE (v + 5) \div 10

\* hash(seed_str) % (2**32), reduced to the states of the modelled
\* generator.  salt is the per-process randomisation of str hashes.
HashStep(a, v) == (a * 31 + (v % RngMod) + 7) % RngMod

SeedOf(b, salt) ==
  HashStep(HashStep(HashStep(HashStep(salt, Format3(b.west)), Format3(b.south)),
                    Format3(b.east)), Format3(b.north))

\* a faulty variant of SeedRng: the generator is never seeded
SeedRngSkipped(b, salt, s) == s

\* if viewport_bounds: random.seed(seed).  The generator state afterwards.
SeedRng(b, salt, s) == IF b.present THEN SeedOf(b, salt) ELSE s

(***************************************************************************)
(* The sampling step of process_features (lines 166-186).                  *)
(***************************************************************************)
RECURSIVE SelectByCategory(_, _)
SelectByCategory(fs, keepFeatured) ==
  IF fs = <<>> THEN <<>>
  ELSE IF (Head(fs).cat = Featured) = keepFeatured
       THEN <<Head(fs)>> \o SelectByCategory(Tail(fs), keepFeatured)
       ELSE SelectByCategory(Tail(fs), keepFeatured)

Prefix(fs, n) == SubSeq(fs, 1, IF Len(fs) < n THEN Len(fs) ELSE n)

\* a faulty variant of SampleFeatures: the others are appended without sampling
SampleFeaturesNoSample(features, s) ==
  [features |-> SelectByCategory(features, TRUE) \o SelectByCategory(features, FALSE), rng |-> s]

\* a faulty variant of SampleFeatures: the priority features take part in the draw
SampleFeaturesAll(features, s) ==
  IF Len(features) > MaxFeaturesForProcessing
  THEN LET d == RandomSample(features, MaxFeaturesForProcessing, s)
       IN [features |-> d.result, rng |-> d.rng]
  ELSE [features |-> features, rng |-> s]

\* the list handed to clustering and the generator state afterwards
SampleFeatures(features, s) ==
  IF Len(features) > MaxFeaturesForProcessing
  THEN LET featured == SelectByCategory(features, TRUE)
           others == SelectByCategory(features, FALSE)
           remaining_slots == MaxFeaturesForProcessing - Len(featured)
       IN IF remaining_slots > 0 /\ others # <<>>
          THEN IF Len(others) <= remaining_slots
               THEN [features |-> featured \o others, rng |-> s]
               ELSE LET d == RandomSample(others, remaining_slots, s)
                    IN [features |-> featured \o d.result, rng |-> d.rng]
          ELSE [features |-> Prefix(featured, MaxFeaturesForProcessing), rng |-> s]
  ELSE [features |-> features, rng |-> s]

(***************************************************************************)
(* The viewport of a GET query (proxy_landmarks, lines 252-298).           *)
(* An envelope is [present, xmin, ymin, xmax, ymax]; present is FALSE when *)
(* one of the four parameters is missing.                                  *)
(***************************************************************************)
\* 20037508.34 / 180, the metres of one degree of Web Mercator
MetresPerDegree == 111319

\* v / 20037508.34 * 180, in units of 1/10000 degree
MercatorDegrees(v) ==
  (v \div MetresPerDegree) * 10000 + ((v % MetresPerDegree) * 10000) \div MetresPerDegree

\* 180 / pi * (2 * atan(exp(d * pi / 180)) - pi / 2) at d = 0, 5, ..., 180
\* degrees, in units of 1/10000 degree
GdKnots ==
  <<0, 49937, 99496, 148315, 196058, 242425, 287163, 330066,
    370980, 409799, 446461, 480944, 513260, 543450, 571574, 597711,
    621951, 644391, 665133, 684279, 701934, 718197, 733166, 746936,
    759593, 771224, 781906, 791713, 800715, 808976, 816554, 823506,
    829882, 835728, 841090, 846005, 850511>>

\* the same function between the knots, by linear interpolation; past the
\* last knot the value stays below 90 degrees and the last knot stands for it
GdPositive(a) ==
  IF a >= 1800000 THEN GdKnots[37]
  ELSE LET k == a \div 50000
           lo == GdKnots[k + 1]
           hi == GdKnots[k + 2]
       IN lo + ((hi - lo) * ((a % 50000) \div 50)) \div 1000

Gd(d) == IF d < 0 THEN -GdPositive(-d) ELSE GdPositive(d)

\* webmercator_to_wgs84(x, y)
webmercator_to_wgs84(x, y) ==
  [lon |-> MercatorDegrees(x), lat |-> Gd(MercatorDegrees(y))]

\* abs(xmin) > 180 or abs(ymin) > 90
LooksProjected(env) == Abs(env.xmin) > 180 \/ Abs(env.ymin) > 90

\* viewport_bounds as proxy_landmarks hands it to process_features
ViewportBounds(env) ==
  IF ~env.present THEN NoBounds
  ELSE IF LooksProjected(env)
       THEN LET lo == webmercator_to_wgs84(env.xmin, env.ymin)
                hi == webmercator_to_wgs84(env.xmax, env.ymax)
            IN Bounds(lo.lon, lo.lat, hi.lon, hi.lat)
       ELSE Bounds(env.xmin * 10000, env.ymin * 10000,
                   env.xmax * 10000, env.ymax * 10000)

Envelope(a, b, c, d) ==
  [present |-> TRUE, xmin |-> a, ymin |-> b, xmax |-> c, ymax |-> d]

NoEnvelope == [present |-> FALSE, xmin |-> 0, ymin |-> 0, xmax |-> 0, ymax |-> 0]

\* the envelopes a request may carry: none, a WGS84 one, the same viewport in
\* Web Mercator, and a Web Mercator one whose lower-left corner is the origin
Envelopes ==
  { NoEnvelope,
    Envelope(-10, 40, 10, 50),
    Envelope(-1113195, 4865942, 1113195, 6446276),
    Envelope(0, 0, 200000, 200000) }

(***************************************************************************)
(* The features the model draws its batches from.                          *)
(***************************************************************************)
Pool ==
  <<Feat(1, "point", 0, 0, Featured, "Alpha", "alpha"),
    Feat(2, "point", 8, 0, "Synagogue", Absent, "beta"),
    Feat(3, "point", 13, 0, "Cemetery", Absent, Absent),
    Feat(4, "short", 5, 0, Featured, "Delta", Absent),
    Feat(5, "nullgeom", 0, 0, Featured, Absent, Absent),
    Feat(6, "point", 0, 40, "Synagogue", "Zeta", Absent),
    Feat(7, "point", 60, 60, Absent, Absent, "eta"),
    Feat(8, "nogeom", 0, 0, "Cemetery", "Theta", Absent),
    Feat(9, "nullcoords", 0, 0, "Synagogue", Absent, Absent),
    Feat(10, "empty", 0, 0, "Cemetery", Absent, Absent),
    Feat(11, "nocoords", 0, 0, Absent, "Kappa", Absent)>>

\* the features of the server specifications and of the clustering one
ServerIds == 1..5
ClusterIds == 1..11

\* the lists of at most n distinct features of ids
Batches(ids, n) ==
  UNION { { [i \in 1..k |-> Pool[q[i]]] :
              q \in { p \in [1..k -> ids] :
                        \A i, j \in 1..k : i # j => p[i] # p[j] } } :
          k \in 0..n }

ServerZooms == {6, 12}
ClusterZooms == {6, 8, 10, 11, 12}

(***************************************************************************)
(* State.                                                                  *)
(***************************************************************************)
VARIABLES
  rng,       \* the state of the module-level generator of `random`
  hashSalt,  \* the randomisation of str hashes, fixed when the process starts
  upstream,  \* the features ArcGIS returns for a query
  req,       \* the request each server thread is processing
  served,    \* the number of requests accepted so far
  ccIn,      \* clustering specification: the arguments of create_clusters
  ccOut      \* clustering specification: what create_clusters returned

vars == <<rng, hashSalt, upstream, req, served, ccIn, ccOut>>

Slots == 1..2

NoResponse ==
  [kind |-> "none", features |-> <<>>, raw |-> <<>>, original_count |-> 0,
   returned_count |-> 0, cluster_count |-> 0, point_count |-> 0,
   display_mode |-> Absent]

\* return response_data: the upstream text, unchanged
RawResponse(data) == [NoResponse EXCEPT !.kind = "raw", !.raw = data]

\* the upstream answer forwarded without processing
PassthroughResponse == [NoResponse EXCEPT !.kind = "passthrough"]

CountClusters(fs, flag) == Cardinality({i \in 1..Len(fs) : fs[i].is_cluster = flag})

\* data['features'] and data['metadata'] (lines 193-209)
ProcessedResponse(processed, original_count, zoom) ==
  [kind |-> "processed", features |-> processed, raw |-> <<>>,
   original_count |-> original_count,
   returned_count |-> Len(processed),
   cluster_count |-> CountClusters(processed, TRUE),
   point_count |-> CountClusters(processed, FALSE),
   display_mode |-> IF zoom < HighZoom THEN "clusters" ELSE "points"]

\* a faulty variant of ClusterResponse: the failure of create_clusters is
\* answered with the sampled features
ClusterResponseSampled(features, zoom, data) ==
  LET r == create_clusters(features, zoom)
  IN IF r.raised THEN RawResponse(features)
     ELSE ProcessedResponse(r.features, Len(data), zoom)

\* lines 188-227: create_clusters, the metadata, and the except clause
ClusterResponse(features, zoom, data) ==
  LET r == create_clusters(features, zoom)
  IN IF r.raised THEN RawResponse(data)
     ELSE ProcessedResponse(r.features, Len(data), zoom)

Idle ==
  [pc |-> "idle", zoom |-> 0, bounds |-> NoBounds, features |-> <<>>,
   sampled |-> FALSE, response |-> NoResponse]

NotRun == [done |-> FALSE, raised |-> FALSE, features |-> <<>>]

\* the states a process may start in: the generator is seeded from the
\* operating system and the hash randomisation is drawn once
ProcessStarts == {[rng |-> 0, salt |-> 0], [rng |-> 9, salt |-> 1]}

Init ==
  /\ \E p \in ProcessStarts : rng = p.rng /\ hashSalt = p.salt
  /\ upstream \in Batches(ServerIds, MaxBatch)
  /\ req = [s \in Slots |-> Idle]
  /\ served = 0
  /\ ccIn = [features |-> <<>>, zoom |-> HighZoom]
  /\ ccOut = NotRun

Free(s) == req[s].pc \in {"idle", "done"}

\* no request is being processed
Quiet == \A s \in Slots : Free(s)

\* a GET query with a zoom and possibly an envelope: process_features is
\* entered with the upstream features
GetQuery(s) ==
  /\ Free(s)
  /\ served < MaxRequests
  /\ \E zoom \in ServerZooms, env \in Envelopes :
       req' = [req EXCEPT ![s] = [Idle EXCEPT !.pc = "seed", !.zoom = zoom,
                                              !.bounds = ViewportBounds(env),
                                              !.features = upstream]]
  /\ served' = served + 1
  /\ UNCHANGED <<rng, hashSalt, upstream, ccIn, ccOut>>

\* a POST query: zoom_level = 10, viewport_bounds = None
PostQuery(s) ==
  /\ Free(s)
  /\ served < MaxRequests
  /\ req' = [req EXCEPT ![s] = [Idle EXCEPT !.pc = "seed", !.zoom = 10,
                                            !.features = upstream]]
  /\ served' = served + 1
  /\ UNCHANGED <<rng, hashSalt, upstream, ccIn, ccOut>>

\* a metadata request, or an upstream answer that is not a 200 with features
Passthrough(s) ==
  /\ Free(s)
  /\ served < MaxRequests
  /\ req' = [req EXCEPT ![s] = [Idle EXCEPT !.pc = "done",
                                            !.response = PassthroughResponse]]
  /\ served' = served + 1
  /\ UNCHANGED <<rng, hashSalt, upstream, ccIn, ccOut>>

\* lines 137-164: an empty batch is returned as it came; otherwise the
\* shared generator is seeded when the request has bounds
ParseAndSeed(s) ==
  /\ req[s].pc = "seed"
  /\ IF Len(req[s].features) = 0
     THEN /\ req' = [req EXCEPT ![s].pc = "done",
                                ![s].response = RawResponse(upstream)]
          /\ rng' = rng
     ELSE /\ req' = [req EXCEPT ![s].pc = "sample"]
          /\ rng' = SeedRng(req[s].bounds, hashSalt, rng)
  /\ UNCHANGED <<hashSalt, upstream, served, ccIn, ccOut>>

\* lines 166-186
Sample(s) ==
  /\ req[s].pc = "sample"
  /\ LET d == SampleFeatures(req[s].features, rng)
     IN /\ req' = [req EXCEPT ![s].pc = "cluster", ![s].features = d.features,
                              ![s].sampled = TRUE]
        /\ rng' = d.rng
  /\ UNCHANGED <<hashSalt, upstream, served, ccIn, ccOut>>

\* lines 188-227
Cluster(s) ==
  /\ req[s].pc = "cluster"
  /\ req' = [req EXCEPT ![s].pc = "done",
                         ![s].response = ClusterResponse(req[s].features,
                                                         req[s].zoom, upstream)]
  /\ UNCHANGED <<rng, hashSalt, upstream, served, ccIn, ccOut>>

\* requests are handled by concurrent threads
Next ==
  \E s \in Slots :
    \/ GetQuery(s)
    \/ PostQuery(s)
    \/ Passthrough(s)
    \/ ParseAndSeed(s)
    \/ Sample(s)
    \/ Cluster(s)

Spec == Init /\ [][Next]_vars

\* requests are handled one after the other
NextSeq ==
  \E s \in Slots :
    \/ Quiet /\ GetQuery(s)
    \/ Quiet /\ PostQuery(s)
    \/ Quiet /\ Passthrough(s)
    \/ ParseAndSeed(s)
    \/ Sample(s)
    \/ Cluster(s)

SpecSeq == Init /\ [][NextSeq]_vars

(***************************************************************************)
(* create_clusters on its own, applied to every short list of features.    *)
(***************************************************************************)
InitClusters ==
  /\ rng = 0
  /\ hashSalt = 0
  /\ upstream = <<>>
  /\ req = [s \in Slots |-> Idle]
  /\ served = 0
  /\ ccIn \in [features : Batches(ClusterIds, MaxLen), zoom : ClusterZooms]
  /\ ccOut = NotRun

ApplyCreateClusters ==
  /\ ~ccOut.done
  /\ LET r == create_clusters(ccIn.features, ccIn.zoom)
     IN ccOut' = [done |-> TRUE, raised |-> r.raised, features |-> r.features]
  /\ UNCHANGED <<rng, hashSalt, upstream, req, served, ccIn>>

NextClusters == ApplyCreateClusters

SpecClusters == InitClusters /\ [][NextClusters]_vars

(***************************************************************************)
(* Vocabulary of the properties.                                           *)
(***************************************************************************)
\* coordinates with at least two components
ValidGeometry(f) == f.gkind = "point"

Range(q) == {q[i] : i \in 1..Len(q)}

Distinct(q) == \A i, j \in 1..Len(q) : i # j => q[i] # q[j]

RECURSIVE SumCounts(_)
SumCounts(out) ==
  IF out = <<>> THEN 0 ELSE Head(out).cluster_count + SumCounts(Tail(out))

\* the features folded into the records of an output list
MemberIds(out) == UNION {Range(out[i].members) : i \in 1..Len(out)}

NoSharedMember(out) ==
  \A i, j \in 1..Len(out) :
    i # j => Range(out[i].members) \cap Range(out[j].members) = {}

ValidIds(fs) == {fs[i].id : i \in {k \in 1..Len(fs) : ValidGeometry(fs[k])}}

FeaturedIds(fs) == {fs[i].id : i \in {k \in 1..Len(fs) : fs[k].cat = Featured}}

\* the features a response carries, processed or returned as they came
ResponseIds(r) ==
  IF r.kind = "raw" THEN Range(FeatureIds(r.raw)) ELSE MemberIds(r.features)

\* requests whose process_features call has returned
Returned(s) == req[s].pc = "done" /\ req[s].response.kind \in {"processed", "raw"}

\* requests past the sampling step
Sampled(s) == req[s].sampled

MembersWithCategory(m, c) == {i \in 1..Len(m) : CategoryOf(Pool[m[i]]) = c}

CategoriesOf(m) == {CategoryOf(Pool[m[i]]) : i \in 1..Len(m)}

FirstMember(m, c) ==
  CHOOSE i \in MembersWithCategory(m, c) : \A j \in MembersWithCategory(m, c) : i <= j

(***************************************************************************)
(* C1.  In a clustering pass (zoom < 12) every feature with valid          *)
(* coordinates is accounted for in exactly one output record: the          *)
(* cluster_count values of the output add up to the number of valid input  *)
(* features and no feature is a member of two records.                     *)
(***************************************************************************)
C1_PartitionComplete ==
  (ccOut.done /\ ccIn.zoom < HighZoom) =>
    /\ ~ccOut.raised
    /\ SumCounts(ccOut.features) = Cardinality(ValidIds(ccIn.features))
    /\ MemberIds(ccOut.features) = ValidIds(ccIn.features)
    /\ NoSharedMember(ccOut.features)

(***************************************************************************)
(* C7.  Every cluster record has at least two members, its categories      *)
(* histogram maps each category to the number of members with it, and its  *)
(* main_category is a category of highest count, the one met first in      *)
(* member order when several tie.                                          *)
(***************************************************************************)
ClusterRecordOk(c) ==
  LET m == c.members
      h == c.categories
  IN /\ c.cluster_count = Len(m)
     /\ c.cluster_count >= 2
     /\ {h[i][1] : i \in 1..Len(h)} = CategoriesOf(m)
     /\ Len(h) = Cardinality(CategoriesOf(m))
     /\ \A i \in 1..Len(h) : h[i][2] = Cardinality(MembersWithCategory(m, h[i][1]))
     /\ c.main_category \in CategoriesOf(m)
     /\ \A d \in CategoriesOf(m) :
          LET nd == Cardinality(MembersWithCategory(m, d))
              nm == Cardinality(MembersWithCategory(m, c.main_category))
          IN /\ nd <= nm
             /\ nd = nm => FirstMember(m, c.main_category) <= FirstMember(m, d)

C7_DominantCategory ==
  ccOut.done =>
    \A i \in 1..Len(ccOut.features) :
      ccOut.features[i].is_cluster => ClusterRecordOk(ccOut.features[i])

\* a cluster of three whose categories all tie, and one with a majority
C7_Witness ==
  /\ ccOut.done
  /\ \E i \in 1..Len(ccOut.features) :
       LET c == ccOut.features[i]
       IN /\ c.is_cluster
          /\ Len(c.categories) >= 2
          /\ \E a, b \in 1..Len(c.categories) :
               /\ a < b
               /\ c.categories[a][2] = c.categories[b][2]
               /\ \A k \in 1..Len(c.categories) :
                    c.categories[k][2] <= c.categories[a][2]

(***************************************************************************)
(* C2.  When at most max_features_for_processing features of the batch are *)
(* Featured, every Featured feature appears in what process_features       *)
(* returns, standalone or as a member of a cluster, at every zoom.         *)
(***************************************************************************)
C2_PriorityPreservedOriginal ==
  \A s \in Slots :
    (Returned(s) /\ Cardinality(FeaturedIds(upstream)) <= MaxFeaturesForProcessing) =>
      FeaturedIds(upstream) \subseteq ResponseIds(req[s].response)

(***************************************************************************)
(* C2, amended.  Under the same condition every Featured feature with      *)
(* valid coordinates appears in what process_features returns, and at      *)
(* zoom >= 12 every Featured feature does.                                 *)
(***************************************************************************)
C2_PriorityPreserved ==
  \A s \in Slots :
    (Returned(s) /\ Cardinality(FeaturedIds(upstream)) <= MaxFeaturesForProcessing) =>
      \A i \in 1..Len(upstream) :
        (upstream[i].cat = Featured
           /\ (ValidGeometry(upstream[i]) \/ req[s].zoom >= HighZoom)) =>
          upstream[i].id \in ResponseIds(req[s].response)

\* a sample was drawn from a batch above the cap and the Featured feature
\* came out of the clustering pass
C2_Witness ==
  \E s \in Slots :
    /\ Returned(s)
    /\ req[s].response.kind = "processed"
    /\ req[s].zoom < HighZoom
    /\ Len(upstream) > MaxFeaturesForProcessing
    /\ Len(req[s].features) < Len(upstream)
    /\ Cardinality(FeaturedIds(upstream)) <= MaxFeaturesForProcessing
    /\ \E i \in 1..Len(upstream) :
         /\ upstream[i].cat = Featured
         /\ ValidGeometry(upstream[i])
         /\ upstream[i].id \in MemberIds(req[s].response.features)

(***************************************************************************)
(* C3.  Two process_features calls, one after the other, with the same     *)
(* features, bounds, zoom and cap select the same sample and return the    *)
(* same feature list, whatever was processed before each of them.          *)
(***************************************************************************)
SameResult(a, b) ==
  /\ a.features = b.features
  /\ a.response = b.response

OwnSample(s) ==
  SampleFeatures(upstream, SeedOf(req[s].bounds, hashSalt)).features

C4_RequestLocalSample ==
  \A s \in Slots :
    (Sampled(s) /\ req[s].bounds.present) => req[s].features = OwnSample(s)

(***************************************************************************)
(* C5.  The list handed to clustering has at most                          *)
(* max_features_for_processing features, at most as many as the input, no  *)
(* feature twice and only features of the input; the returned_count of the *)
(* metadata never exceeds the cap.                                         *)
(***************************************************************************)
C5_SampleBounded ==
  \A s \in Slots :
    /\ Sampled(s) =>
         /\ Len(req[s].features) <= MaxFeaturesForProcessing
         /\ Len(req[s].features) <= Len(upstream)
         /\ Distinct(FeatureIds(req[s].features))
         /\ Range(req[s].features) \subseteq Range(upstream)
    /\ req[s].response.kind = "processed" =>
         /\ req[s].response.returned_count <= MaxFeaturesForProcessing
         /\ req[s].response.returned_count = Len(req[s].response.features)

\* a batch above the cap was cut to the cap by a draw and answered
C5_Witness ==
  \E s \in Slots :
    /\ req[s].response.kind = "processed"
    /\ Len(upstream) > MaxFeaturesForProcessing
    /\ Len(req[s].features) = MaxFeaturesForProcessing
    /\ Cardinality(FeaturedIds(upstream)) < MaxFeaturesForProcessing
    /\ req[s].response.returned_count > 0

(***************************************************************************)
(* C6.  At zoom >= 12 every feature handed to create_clusters is emitted,  *)
(* in input order, tagged is_cluster = false and cluster_count = 1, with   *)
(* its geometry and every other property unchanged and no property added;  *)
(* the metadata has cluster_count = 0 and point_count = returned_count.    *)
(***************************************************************************)
\* the output record o is the feature f, tagged, with the Name name
PassedThrough(o, f, name) ==
  /\ o.OBJECTID = <<"feature", f.id>>
  /\ o.gkind = f.gkind
  /\ o.lon = <<f.x, 1>>
  /\ o.lat = <<f.y, 1>>
  /\ o.main_category = f.cat
  /\ o.eng_name = f.eng_name
  /\ o.Address = Absent
  /\ o.categories = <<>>
  /\ o.is_cluster = FALSE
  /\ o.cluster_count = 1
  /\ o.Name = name

HighZoomMetadata(r) ==
  /\ r.cluster_count = 0
  /\ r.point_count = r.returned_count
  /\ r.display_mode = "points"

HighZoomDone(s) ==
  req[s].pc = "done" /\ req[s].response.kind = "processed" /\ req[s].zoom >= HighZoom

C6_HighZoomPassthroughOriginal ==
  \A s \in Slots :
    HighZoomDone(s) =>
      /\ Len(req[s].response.features) = Len(req[s].features)
      /\ \A i \in 1..Len(req[s].features) :
           PassedThrough(req[s].response.features[i], req[s].features[i],
                         req[s].features[i].Name)
      /\ HighZoomMetadata(req[s].response)

(***************************************************************************)
(* C6, amended.  The same, except that a feature without a Name property   *)
(* is given one: its eng_name, or 'Unknown Site' when it has none.         *)
(***************************************************************************)
ExpectedName(f) ==
  IF f.Name # Absent THEN f.Name
  ELSE IF f.eng_name # Absent THEN f.eng_name ELSE "Unknown Site"

C6_HighZoomPassthrough ==
  \A s \in Slots :
    HighZoomDone(s) =>
      /\ Len(req[s].response.features) = Len(req[s].features)
      /\ \A i \in 1..Len(req[s].features) :
           PassedThrough(req[s].response.features[i], req[s].features[i],
                         ExpectedName(req[s].features[i]))
      /\ HighZoomMetadata(req[s].response)

\* a high-zoom answer with two features, one of them without valid
\* coordinates and one without a Name
C6_Witness ==
  \E s \in Slots :
    /\ HighZoomDone(s)
    /\ Len(req[s].response.features) = 2
    /\ \E i \in 1..2 : ~ValidGeometry(req[s].features[i])
    /\ \E i \in 1..2 : req[s].features[i].Name = Absent

(***************************************************************************)
(* C8.  In a clustering pass a feature with invalid geometry is dropped    *)
(* and never aborts the batch: it appears in no output record and every    *)
(* other feature of the batch is clustered and returned.                   *)
(***************************************************************************)
C8_InvalidGeometryDropped ==
  \A s \in Slots :
    (req[s].pc = "done" /\ Sampled(s) /\ req[s].zoom < HighZoom) =>
      /\ req[s].response.kind = "processed"
      /\ MemberIds(req[s].response.features) = ValidIds(req[s].features)

Geographic(b) ==
  /\ Abs(b.west) <= 180 * 10000
  /\ Abs(b.east) <= 180 * 10000
  /\ Abs(b.south) <= 90 * 10000
  /\ Abs(b.north) <= 90 * 10000

C10_BoundsGeographic ==
  \A s \in Slots : req[s].bounds.present => Geographic(req[s].bounds)

====
